---- MODULE Spec2Model ----
(***************************************************************************)
(* Model of the MT action library (mt_action.h, mt_action.cpp): the Action *)
(* status machine, the leaf actions ActionChecker, ActionWaitForTime and   *)
(* ActionFunction, the containers ActionQueue, ActionWaitAny and           *)
(* ActionWaitAll, and the ActionManager registry.                          *)
(*                                                                         *)
(* Time (double in the source) is modelled by naturals: one unit is one    *)
(* tick, and every duration and delta is a whole number of ticks.          *)
(***************************************************************************)
EXTENDS Integers, Sequences, FiniteSets, TLC

\* ---------------------------------------------------------------- bounds
MaxDelta == 3   \* largest intervalTime passed to one Update call
MaxCum   == 6   \* cap on the time fed to the main action by an Update-only run
MaxObs   == 2   \* cap on the callbacks subscribed in one run, over all actions

\* ------------------------------------------------------- action trees
\* A configuration is a forest of actions built before the run (the
\* constructors and AddAction calls); node i of a forest is forest.tree[i],
\* and mgr tells whether the host also built an ActionManager.
Leaf(k, w)  == [kind |-> k, kids |-> <<>>, wait |-> w]
Timer(w)    == Leaf("Timer", w)
Function    == Leaf("Function", 0)
Checker     == Leaf("Checker", 0)
Comp(k, ks) == [kind |-> k, kids |-> ks, wait |-> 0]

Configs ==
  << [name |-> "Timer2+Function",  mgr |-> TRUE, roots |-> <<1, 2>>,
      tree |-> << Timer(2), Function >>],
     [name |-> "Timer0",           mgr |-> FALSE, roots |-> <<1>>,
      tree |-> << Timer(0) >>],
     [name |-> "Checker",          mgr |-> FALSE, roots |-> <<1>>,
      tree |-> << Checker >>],
     [name |-> "Queue[F,F]",       mgr |-> FALSE, roots |-> <<1>>,
      tree |-> << Comp("Queue", <<2, 3>>), Function, Function >>],
     [name |-> "Queue[T1,T2]",     mgr |-> TRUE, roots |-> <<1>>,
      tree |-> << Comp("Queue", <<2, 3>>), Timer(1), Timer(2) >>],
     [name |-> "WaitAny[T1,T2,T3]", mgr |-> FALSE, roots |-> <<1>>,
      tree |-> << Comp("WaitAny", <<2, 3, 4>>), Timer(1), Timer(2), Timer(3) >>],
     [name |-> "WaitAll[T1,T2,T3]", mgr |-> FALSE, roots |-> <<1>>,
      tree |-> << Comp("WaitAll", <<2, 3, 4>>), Timer(1), Timer(2), Timer(3) >>],
     [name |-> "WaitAll[Queue[F],T2]", mgr |-> TRUE, roots |-> <<1>>,
      tree |-> << Comp("WaitAll", <<2, 4>>), Comp("Queue", <<3>>), Function, Timer(2) >>],
     [name |-> "Queue[WaitAll[T1],F]", mgr |-> FALSE, roots |-> <<1>>,
      tree |-> << Comp("Queue", <<2, 4>>), Comp("WaitAll", <<3>>), Timer(1), Function >>],
     [name |-> "WaitAny[Queue[T1,F],T2]", mgr |-> FALSE, roots |-> <<1>>,
      tree |-> << Comp("WaitAny", <<2, 5>>), Comp("Queue", <<3, 4>>), Timer(1), Function, Timer(2) >>],
     [name |-> "Queue[]",          mgr |-> FALSE, roots |-> <<1>>,
      tree |-> << Comp("Queue", <<>>) >>],
     [name |-> "WaitAny[]",        mgr |-> FALSE, roots |-> <<1>>,
      tree |-> << Comp("WaitAny", <<>>) >>],
     [name |-> "WaitAll[]",        mgr |-> FALSE, roots |-> <<1>>,
      tree |-> << Comp("WaitAll", <<>>) >>],
     [name |-> "Queue[T1,T1,T2]",  mgr |-> FALSE, roots |-> <<1>>,
      tree |-> << Comp("Queue", <<2, 3, 4>>), Timer(1), Timer(1), Timer(2) >>] >>

Names == {"a", "b"}     \* registry keys used by the host

VARIABLES
  cfg,          \* index into Configs: the forest built before the run
  status,       \* Action::_status of every node
  delayedTime,  \* ActionWaitForTime::_delayedTime
  done,         \* _done of ActionChecker / ActionWaitForTime / ActionFunction
  index,        \* ActionQueue::_index
  obs,          \* number of callbacks in Action::_OnEventFuncs of every node
  actions,      \* ActionManager::_actions: name -> root node, or "none"
  var,          \* the variable an ActionChecker watches (TRUE: equals _value)
  crashed,      \* the process died on an out-of-range child access
  ncalls,       \* history: how often each ActionFunction callback ran
  consumed,     \* history: time each Running Timer took (delta - leftover)
  hist,         \* history of the main action: "pure" (Start, then Updates only),
                \* "started" (Start came first, other calls followed), "other"
  cum,          \* history: time fed to the main action by that Update-only run
  last,         \* the operation that led to this state
  evs,          \* _OnEvent calls of the last operation, in order
  notes,        \* observer invocations of the last operation, in order
  calls,        \* ActionFunction callbacks run by the last operation, in order
  upds          \* Update calls of the last operation, in the order they return:
                \* << action, delta, leftover, status at the call >>

vars == << cfg, status, delayedTime, done, index, obs, actions, var, crashed,
           ncalls, consumed, hist, cum, last, evs, notes, calls, upds >>

Forest      == Configs[cfg]
Nodes       == DOMAIN Forest.tree
Kind(n)     == Forest.tree[n].kind
Children(n) == Forest.tree[n].kids
WaitTime(n) == Forest.tree[n].wait
Roots       == {Forest.roots[i] : i \in DOMAIN Forest.roots}
MainRoot    == Forest.roots[1]
IsComposite(n) == Kind(n) \in {"Queue", "WaitAny", "WaitAll"}


\* ============================================================ class Action
\* The operators below work on a record s holding the fields of every
\* object; s.ub is the outcome this run gives to an out-of-range child
\* access ("crash": the process dies there, "skip": the access does
\* nothing), and once s.crashed holds nothing more is executed.

\* Mutant: the callbacks run from the last subscribed to the first.
Mut_OnEvent(s, n, e) ==
  [s EXCEPT !.evs   = Append(@, <<n, e>>),
            !.notes = @ \o [k \in 1..obs[n] |->
                              <<n, obs[n] + 1 - k, e, s.status[n]>>]]

\* Action::_OnEvent: every subscribed callback, in subscription order.
OnEvent(s, n, e) ==
  [s EXCEPT !.evs   = Append(@, <<n, e>>),
            !.notes = @ \o [k \in 1..obs[n] |-> <<n, k, e, s.status[n]>>]]

Action_Start(s, n) ==
  IF s.crashed THEN s
  ELSE IF s.status[n] = "Init"
       THEN OnEvent([s EXCEPT !.status[n] = "Running"], n, "Started")
       ELSE s

Action_Pause(s, n) ==
  IF s.crashed THEN s
  ELSE IF s.status[n] = "Running"
       THEN OnEvent([s EXCEPT !.status[n] = "Paused"], n, "Paused")
       ELSE s

Action_Resume(s, n) ==
  IF s.crashed THEN s
  ELSE IF s.status[n] = "Paused"
       THEN OnEvent([s EXCEPT !.status[n] = "Running"], n, "Resumed")
       ELSE s

\* Mutant: Stop that leaves an action alone once it has ended.
Mut_Action_Stop(s, n) ==
  IF s.crashed \/ s.status[n] \in {"Finished", "Canceled"} THEN s
  ELSE OnEvent([s EXCEPT !.status[n] = "Canceled"], n, "Canceled")

Action_Stop(s, n) ==
  IF s.crashed THEN s
  ELSE OnEvent([s EXCEPT !.status[n] = "Canceled"], n, "Canceled")

IsInit(s, n)     == s.status[n] = "Init"
IsRunning(s, n)  == s.status[n] = "Running"
IsPaused(s, n)   == s.status[n] = "Paused"
IsFinished(s, n) == s.status[n] = "Finished"

\* The child an ActionQueue's cursor points at (the cursor counts from 0).
Current(s, n) == Children(n)[s.index[n] + 1]

ActionQueue_IsDone(s, n)   == s.index[n] >= Len(Children(n))
ActionWaitAny_IsDone(s, n) ==
  \E i \in 1..Len(Children(n)) : IsFinished(s, Children(n)[i])
\* Mutant: a WaitAll that is done with its first Finished child.
Mut_ActionWaitAll_IsDone(s, n) ==
  \E i \in 1..Len(Children(n)) : IsFinished(s, Children(n)[i])
ActionWaitAll_IsDone(s, n) ==
  \A i \in 1..Len(Children(n)) : IsFinished(s, Children(n)[i])

IsDone(s, n) ==
  CASE Kind(n) = "Queue"   -> ActionQueue_IsDone(s, n)
    [] Kind(n) = "WaitAny" -> ActionWaitAny_IsDone(s, n)
    [] Kind(n) = "WaitAll" -> ActionWaitAll_IsDone(s, n)
    [] OTHER               -> s.done[n]

Action_UpdateStatus(s, n) ==
  IF s.crashed THEN s
  ELSE IF IsDone(s, n)
       THEN OnEvent([s EXCEPT !.status[n] = "Finished"], n, "Finished")
       ELSE s

\* _actions[_index] with _index >= _actions.size(): undefined behaviour.
OutOfRange(s) ==
  IF s.crashed THEN s
  ELSE [s EXCEPT !.oob = TRUE, !.crashed = (s.ub = "crash")]

RECURSIVE Pause(_, _), Resume(_, _), Stop(_, _), ForAll(_, _, _, _)
RECURSIVE StopUnfinished(_, _, _)

\* for( auto& action : _actions ) action->Pause() / Resume() / Stop()
ForAll(s, kids, i, op) ==
  IF i > Len(kids) \/ s.crashed THEN s
  ELSE ForAll(CASE op = "Pause"  -> Pause(s, kids[i])
                [] op = "Resume" -> Resume(s, kids[i])
                [] OTHER         -> Stop(s, kids[i]),
              kids, i + 1, op)

\* _actions[_index]->Pause() / Resume() / Stop(), after the base call.
PauseCurrent(s1, n) ==
  IF s1.index[n] < Len(Children(n)) THEN Pause(s1, Current(s1, n))
  ELSE OutOfRange(s1)

ResumeCurrent(s1, n) ==
  IF s1.index[n] < Len(Children(n)) THEN Resume(s1, Current(s1, n))
  ELSE OutOfRange(s1)

StopCurrent(s1, n) ==
  IF s1.index[n] < Len(Children(n)) THEN Stop(s1, Current(s1, n))
  ELSE OutOfRange(s1)

ActionQueue_Pause(s, n)  == PauseCurrent(Action_Pause(s, n), n)
ActionQueue_Resume(s, n) == ResumeCurrent(Action_Resume(s, n), n)
ActionQueue_Stop(s, n)   == StopCurrent(Action_Stop(s, n), n)

\* Mutant: a Stop that does not reach the children.
Mut_ActionWaitAny_Stop(s, n) == Action_Stop(s, n)

ActionWaitAny_Pause(s, n)  == ForAll(Action_Pause(s, n), Children(n), 1, "Pause")
ActionWaitAny_Resume(s, n) == ForAll(Action_Resume(s, n), Children(n), 1, "Resume")
ActionWaitAny_Stop(s, n)   == ForAll(Action_Stop(s, n), Children(n), 1, "Stop")

ActionWaitAll_Pause(s, n)  == ForAll(Action_Pause(s, n), Children(n), 1, "Pause")
ActionWaitAll_Resume(s, n) == ForAll(Action_Resume(s, n), Children(n), 1, "Resume")
ActionWaitAll_Stop(s, n)   == ForAll(Action_Stop(s, n), Children(n), 1, "Stop")

\* Virtual dispatch. Start is not overridden by any class.
Start(s, n) == Action_Start(s, n)

Pause(s, n) ==
  CASE Kind(n) = "Queue"   -> ActionQueue_Pause(s, n)
    [] Kind(n) = "WaitAny" -> ActionWaitAny_Pause(s, n)
    [] Kind(n) = "WaitAll" -> ActionWaitAll_Pause(s, n)
    [] OTHER               -> Action_Pause(s, n)

Resume(s, n) ==
  CASE Kind(n) = "Queue"   -> ActionQueue_Resume(s, n)
    [] Kind(n) = "WaitAny" -> ActionWaitAny_Resume(s, n)
    [] Kind(n) = "WaitAll" -> ActionWaitAll_Resume(s, n)
    [] OTHER               -> Action_Resume(s, n)

Stop(s, n) ==
  CASE Kind(n) = "Queue"   -> ActionQueue_Stop(s, n)
    [] Kind(n) = "WaitAny" -> ActionWaitAny_Stop(s, n)
    [] Kind(n) = "WaitAll" -> ActionWaitAll_Stop(s, n)
    [] OTHER               -> Action_Stop(s, n)

\* Mutant: a Finished WaitAny that stops all its children, the winner too.
Mut_StopUnfinished(s, kids, i) == ForAll(s, kids, i, "Stop")

\* ActionWaitAny::UpdateStatus: the losers are stopped once it is Finished.
StopUnfinished(s, kids, i) ==
  IF i > Len(kids) \/ s.crashed THEN s
  ELSE StopUnfinished(IF ~IsFinished(s, kids[i]) THEN Stop(s, kids[i]) ELSE s,
                      kids, i + 1)

\* Mutant: a WaitAny that finishes without stopping the losers.
Mut_ActionWaitAny_UpdateStatus(s, n) == Action_UpdateStatus(s, n)

StopLosers(s1, n) ==
  IF IsFinished(s1, n) THEN StopUnfinished(s1, Children(n), 1) ELSE s1

ActionWaitAny_UpdateStatus(s, n) == StopLosers(Action_UpdateStatus(s, n), n)

UpdateStatus(s, n) ==
  IF Kind(n) = "WaitAny" THEN ActionWaitAny_UpdateStatus(s, n)
  ELSE Action_UpdateStatus(s, n)

\* Action::Update: the completion check, and the time handed in comes back.
Action_Update(s, n, intervalTime) ==
  [s |-> UpdateStatus(s, n), left |-> intervalTime]

\* ============================================================ leaf actions
RECURSIVE Update(_, _, _), QueueLoop(_, _, _), AnyLoop(_, _, _, _, _)
RECURSIVE AllLoop(_, _, _, _, _)

ActionChecker_Update(s, n, intervalTime) ==
  IF ~IsRunning(s, n) THEN [s |-> s, left |-> 0]
  ELSE LET s1 == [s EXCEPT !.done[n] = var]
       IN  Action_Update(s1, n, IF s1.done[n] THEN intervalTime ELSE 0)

\* Mutant: a Timer that takes the whole delta, past its duration.
Mut_ActionWaitForTime_Update(s, n, intervalTime) ==
  IF ~IsRunning(s, n) THEN [s |-> s, left |-> 0]
  ELSE LET reached == s.delayedTime[n] + intervalTime >= WaitTime(n)
           s1      == [s EXCEPT !.done[n] = reached,
                                !.delayedTime[n] = @ + intervalTime]
       IN  Action_Update(s1, n, 0)

ActionWaitForTime_Update(s, n, intervalTime) ==
  IF ~IsRunning(s, n) THEN [s |-> s, left |-> 0]
  ELSE LET reached == s.delayedTime[n] + intervalTime >= WaitTime(n)
           used    == IF reached THEN WaitTime(n) - s.delayedTime[n]
                      ELSE intervalTime
           s1      == [s EXCEPT !.done[n] = reached,
                                !.delayedTime[n] = @ + used]
       IN  Action_Update(s1, n, intervalTime - used)

\* Mutant: a Function that runs its callback in every Update, whatever its
\* status.
Mut_ActionFunction_UpdateAlways(s, n, intervalTime) ==
  Action_Update([s EXCEPT !.calls = Append(@, n),
                          !.ncalls[n] = @ + 1,
                          !.done[n] = TRUE], n, intervalTime)

\* Mutant: a Function that keeps the delta instead of handing it back.
Mut_ActionFunction_Update(s, n, intervalTime) ==
  IF ~IsRunning(s, n) THEN [s |-> s, left |-> 0]
  ELSE LET s1 == [s EXCEPT !.calls = Append(@, n),
                           !.ncalls[n] = @ + 1,
                           !.done[n] = TRUE]
       IN  Action_Update(s1, n, 0)

ActionFunction_Update(s, n, intervalTime) ==
  IF ~IsRunning(s, n) THEN [s |-> s, left |-> 0]
  ELSE LET s1 == [s EXCEPT !.calls = Append(@, n),
                           !.ncalls[n] = @ + 1,
                           !.done[n] = TRUE]
       IN  Action_Update(s1, n, intervalTime)

\* ============================================================ containers
\* The result of a container's loop goes through Action::Update.
Finish(r, n) == Action_Update(r.s, n, r.left)

\* if( action->IsInit() ) action->Start();
StartIfInit(s, a) == IF IsInit(s, a) THEN Start(s, a) ELSE s

\* if( action->IsRunning() && Action::IsPaused() ) action->Pause();
MirrorPause(s1, n, a) ==
  IF IsRunning(s1, a) /\ IsPaused(s1, n) THEN Pause(s1, a) ELSE s1

\* Mutant: a loop that drops what the child hands back.
Mut_Advance(s2, a, intervalTime) ==
  IF intervalTime > 0 /\ IsRunning(s2, a)
  THEN [s |-> Update(s2, a, intervalTime).s, left |-> 0]
  ELSE [s |-> s2, left |-> intervalTime]

\* if( intervalTime > 0 && action->IsRunning() )
\*     intervalTime = action->Update(intervalTime);
Advance(s2, a, intervalTime) ==
  IF intervalTime > 0 /\ IsRunning(s2, a) THEN Update(s2, a, intervalTime)
  ELSE [s |-> s2, left |-> intervalTime]

\* Mutant: a loop that moves to the next child whether or not this one is
\* Finished.
Mut_NextOrBreak(r3, n, a) ==
  IF ~r3.s.crashed
  THEN QueueLoop([r3.s EXCEPT !.index[n] = @ + 1], n, r3.left)
  ELSE r3

\* if( action->IsFinished() ) _index++; else break;
NextOrBreak(r3, n, a) ==
  IF IsFinished(r3.s, a) /\ ~r3.s.crashed
  THEN QueueLoop([r3.s EXCEPT !.index[n] = @ + 1], n, r3.left)
  ELSE r3

\* One round of the while loop of ActionQueue::Update on the child a.
QueueRound(s, n, a, intervalTime) ==
  NextOrBreak(Advance(MirrorPause(StartIfInit(s, a), n, a), a, intervalTime),
              n, a)

\* The while loop of ActionQueue::Update.
QueueLoop(s, n, intervalTime) ==
  IF s.crashed \/ ~(s.index[n] < Len(Children(n)))
  THEN [s |-> s, left |-> intervalTime]
  ELSE QueueRound(s, n, Current(s, n), intervalTime)

ActionQueue_Update(s, n, intervalTime) ==
  Finish(QueueLoop(s, n, intervalTime), n)

\* Mutant: the leftover of the last child updated, not the largest one.
Mut_TakeMax(r, maxLeftTime) == [s |-> r.s, left |-> r.left]

\* if( left > maxLeftTime ) maxLeftTime = left;
TakeMax(r, maxLeftTime) ==
  [s |-> r.s, left |-> IF r.left > maxLeftTime THEN r.left ELSE maxLeftTime]

\* if (action->IsRunning()) { auto left = action->Update(intervalTime); ... }
AnyChild(s1, a, intervalTime, maxLeftTime) ==
  IF IsRunning(s1, a) THEN TakeMax(Update(s1, a, intervalTime), maxLeftTime)
  ELSE [s |-> s1, left |-> maxLeftTime]

AnyNext(r, n, i, intervalTime) == AnyLoop(r.s, n, i + 1, intervalTime, r.left)

\* The for loop of ActionWaitAny::Update.
AnyLoop(s, n, i, intervalTime, maxLeftTime) ==
  IF i > Len(Children(n)) \/ s.crashed THEN [s |-> s, left |-> maxLeftTime]
  ELSE AnyNext(AnyChild(StartIfInit(s, Children(n)[i]), Children(n)[i],
                        intervalTime, maxLeftTime),
               n, i, intervalTime)

ActionWaitAny_Update(s, n, intervalTime) ==
  Finish(AnyLoop(s, n, 1, intervalTime, 0), n)

\* Mutant: the leftover of the last child updated, whatever the minimum so far.
Mut_TakeMin(r, minLeftTime) == [s |-> r.s, left |-> r.left]

\* if( left < minLeftTime ) minLeftTime = left;
TakeMin(r, minLeftTime) ==
  [s |-> r.s, left |-> IF r.left < minLeftTime THEN r.left ELSE minLeftTime]

AllChild(s1, a, intervalTime, minLeftTime) ==
  IF IsRunning(s1, a) THEN TakeMin(Update(s1, a, intervalTime), minLeftTime)
  ELSE [s |-> s1, left |-> minLeftTime]

AllNext(r, n, i, intervalTime) == AllLoop(r.s, n, i + 1, intervalTime, r.left)

\* The for loop of ActionWaitAll::Update.
AllLoop(s, n, i, intervalTime, minLeftTime) ==
  IF i > Len(Children(n)) \/ s.crashed THEN [s |-> s, left |-> minLeftTime]
  ELSE AllNext(AllChild(StartIfInit(s, Children(n)[i]), Children(n)[i],
                        intervalTime, minLeftTime),
               n, i, intervalTime)

ActionWaitAll_Update(s, n, intervalTime) ==
  Finish(AllLoop(s, n, 1, intervalTime, 0), n)

\* History of a call: the time a Running Timer took in it (delta - leftover),
\* and the call itself.
Consume(s, n, intervalTime, r) ==
  IF Kind(n) = "Timer" /\ IsRunning(s, n)
  THEN [r EXCEPT !.s.consumed[n] = @ + (intervalTime - r.left),
                 !.s.upds = Append(@, <<n, intervalTime, r.left, s.status[n]>>)]
  ELSE [r EXCEPT !.s.upds = Append(@, <<n, intervalTime, r.left, s.status[n]>>)]

\* Virtual dispatch of Update.
Dispatch(s, n, intervalTime) ==
  CASE Kind(n) = "Queue"    -> ActionQueue_Update(s, n, intervalTime)
    [] Kind(n) = "WaitAny"  -> ActionWaitAny_Update(s, n, intervalTime)
    [] Kind(n) = "WaitAll"  -> ActionWaitAll_Update(s, n, intervalTime)
    [] Kind(n) = "Timer"    -> ActionWaitForTime_Update(s, n, intervalTime)
    [] Kind(n) = "Function" -> ActionFunction_Update(s, n, intervalTime)
    [] OTHER                -> ActionChecker_Update(s, n, intervalTime)

Update(s, n, intervalTime) ==
  Consume(s, n, intervalTime, Dispatch(s, n, intervalTime))

\* ============================================================ ActionManager
\* s.actions maps a name to its root action, 0 when the name has no entry.
\* ord is the order in which this run's unordered_map hands out its entries.
RECURSIVE MgrLoop(_, _, _, _, _)

Erase(s, name) == [s EXCEPT !.actions[name] = 0]

\* Mutant: a Start that does not look for an entry of that name.
Mut_ActionManager_Start(s, name, a) ==
  Start([s EXCEPT !.actions[name] = a], a)

ActionManager_Start(s, name, a) ==
  IF s.actions[name] # 0 THEN s
  ELSE Start([s EXCEPT !.actions[name] = a], a)

ActionManager_Pause(s, name) ==
  IF s.actions[name] # 0 THEN Pause(s, s.actions[name]) ELSE s

ActionManager_Resume(s, name) ==
  IF s.actions[name] # 0 THEN Resume(s, s.actions[name]) ELSE s

\* _actions.erase(it), reached unless the call before it crashed.
EraseStopped(s1, name) == IF s1.crashed THEN s1 ELSE Erase(s1, name)

ActionManager_Stop(s, name) ==
  IF s.actions[name] # 0 THEN EraseStopped(Stop(s, s.actions[name]), name)
  ELSE s

\* Mutant: an Update that keeps the entries of Finished actions.
Mut_EraseFinished(s1, name) == s1

\* if ( del->second->IsFinished() ) _actions.erase(del);
EraseFinished(s1, name) ==
  IF ~s1.crashed /\ IsFinished(s1, s1.actions[name]) THEN Erase(s1, name)
  ELSE s1

\* One entry of ActionManager::Update: update it, erase it when Finished.
UpdateEntry(s, name, intervalTime) ==
  EraseFinished(Update(s, s.actions[name], intervalTime).s, name)

MgrLoop(s, ord, i, op, intervalTime) ==
  IF i > Len(ord) \/ s.crashed THEN s
  ELSE IF s.actions[ord[i]] = 0 THEN MgrLoop(s, ord, i + 1, op, intervalTime)
  ELSE MgrLoop(CASE op = "PauseAll"  -> Pause(s, s.actions[ord[i]])
                 [] op = "ResumeAll" -> Resume(s, s.actions[ord[i]])
                 [] op = "StopAll"   -> ActionManager_Stop(s, ord[i])
                 [] OTHER            -> UpdateEntry(s, ord[i], intervalTime),
               ord, i + 1, op, intervalTime)

ActionManager_PauseAll(s, ord)  == MgrLoop(s, ord, 1, "PauseAll", 0)
ActionManager_ResumeAll(s, ord) == MgrLoop(s, ord, 1, "ResumeAll", 0)
ActionManager_StopAll(s, ord)   == MgrLoop(s, ord, 1, "StopAll", 0)
ActionManager_Update(s, ord, intervalTime) ==
  MgrLoop(s, ord, 1, "Update", intervalTime)
ActionManager_IsExist(name)     == actions[name] # 0
ActionManager_GetActionSize     == Cardinality({nm \in Names : actions[nm] # 0})

\* ============================================================ the state machine
Orders == {o \in [1..Cardinality(Names) -> Names] :
             \A i, j \in DOMAIN o : i # j => o[i] # o[j]}
UB     == {"crash", "skip"}
\* The orders that differ for the entries held now.
OrdersNow == IF \A nm \in Names : actions[nm] # 0 THEN Orders
             ELSE {CHOOSE o \in Orders : TRUE}

Init ==
  /\ cfg \in 1..Len(Configs)
  /\ status      = [n \in Nodes |-> "Init"]
  /\ delayedTime = [n \in Nodes |-> 0]
  /\ done        = [n \in Nodes |-> FALSE]
  /\ index       = [n \in Nodes |-> 0]
  /\ obs         = [n \in Nodes |-> 0]
  /\ actions     = [nm \in Names |-> 0]
  /\ var         = FALSE
  /\ crashed     = FALSE
  /\ ncalls      = [n \in Nodes |-> 0]
  /\ consumed    = [n \in Nodes |-> 0]
  /\ hist        = "pure"
  /\ cum         = 0
  /\ last        = [op |-> "Init", node |-> 0, name |-> "", dt |-> 0, ret |-> 0,
                    pre |-> "", held |-> 0, oob |-> FALSE]
  /\ evs = <<>> /\ notes = <<>> /\ calls = <<>> /\ upds = <<>>

\* The objects as one record, at the start of an operation.
Cur(ub) ==
  [status |-> status, delayedTime |-> delayedTime, done |-> done,
   index |-> index, actions |-> actions, crashed |-> crashed,
   ncalls |-> ncalls, consumed |-> consumed,
   evs |-> <<>>, notes |-> <<>>, calls |-> <<>>, upds |-> <<>>,
   oob |-> FALSE, ub |-> ub]

\* The outcomes of an operation: one, unless it reads a child out of range.
Outcomes(c, k)    == IF c.oob THEN {c, k} ELSE {c}
UpdOutcomes(c, k) == IF c.s.oob THEN {c, k} ELSE {c}

Commit(s, op, node, name, dt, ret) ==
  /\ status' = s.status /\ delayedTime' = s.delayedTime /\ done' = s.done
  /\ index' = s.index /\ actions' = s.actions /\ crashed' = s.crashed
  /\ ncalls' = s.ncalls /\ consumed' = s.consumed
  /\ evs' = s.evs /\ notes' = s.notes /\ calls' = s.calls /\ upds' = s.upds
  /\ last' = [op |-> op, node |-> node, name |-> name, dt |-> dt, ret |-> ret,
              pre |-> IF node = 0 THEN "" ELSE status[node],
              held |-> IF name = "" THEN 0 ELSE actions[name], oob |-> s.oob]
  /\ UNCHANGED << cfg, obs, var >>

\* The main action leaves the Update-only run with any other operation, and
\* a call other than Start that reaches it while it is Init is remembered.
pure      == hist = "pure"
Impure(h) == hist' = (IF hist = "other" THEN "other" ELSE h) /\ cum' = 0
Keep      == UNCHANGED << hist, cum >>
Touch(r)  == IF r # MainRoot THEN Keep
             ELSE Impure(IF status[r] = "Init" THEN "other" ELSE "started")

Registered(r) == \E nm \in Names : actions[nm] = r
\* An action has one driver: the host calls the main action's operations
\* itself only while the registry does not hold it, and drives any other
\* root through the registry alone.
Free   == {r \in Roots : ~Registered(r)}
Direct == Free \cap {MainRoot}

DoStart(r) ==
  /\ ~crashed /\ r \in Direct
  /\ \E s \in Outcomes(Start(Cur("crash"), r), Start(Cur("skip"), r)) :
       Commit(s, "Start", r, "", 0, 0)
  /\ Keep

DoPause(r) ==
  /\ ~crashed /\ r \in Direct
  /\ \E s \in Outcomes(Pause(Cur("crash"), r), Pause(Cur("skip"), r)) :
       Commit(s, "Pause", r, "", 0, 0)
  /\ Touch(r)

DoResume(r) ==
  /\ ~crashed /\ r \in Direct
  /\ \E s \in Outcomes(Resume(Cur("crash"), r), Resume(Cur("skip"), r)) :
       Commit(s, "Resume", r, "", 0, 0)
  /\ Touch(r)

DoStop(r) ==
  /\ ~crashed /\ r \in Direct
  /\ \E s \in Outcomes(Stop(Cur("crash"), r), Stop(Cur("skip"), r)) :
       Commit(s, "Stop", r, "", 0, 0)
  /\ Touch(r)

DoUpdate(r, dt) ==
  /\ ~crashed /\ r \in Direct
  /\ (r = MainRoot /\ pure /\ status[r] = "Running") => cum + dt <= MaxCum
  /\ \E res \in UpdOutcomes(Update(Cur("crash"), r, dt), Update(Cur("skip"), r, dt)) :
       Commit(res.s, "Update", r, "", dt, res.left)
  /\ IF r # MainRoot THEN Keep
     ELSE IF status[r] = "Init" THEN Impure("other")
     ELSE /\ hist' = hist
          /\ cum' = IF pure /\ status[r] = "Running" THEN cum + dt ELSE cum

RECURSIVE SumTo(_, _)
SumTo(f, n) == IF n = 0 THEN 0 ELSE f[n] + SumTo(f, n - 1)
Subscribed  == SumTo(obs, Len(Forest.tree))

\* The host subscribes its callbacks to the main action.
Watched == {MainRoot}

\* Action::AddOnEvent
AddOnEvent(n) ==
  /\ ~crashed /\ Subscribed < MaxObs
  /\ obs' = [obs EXCEPT ![n] = @ + 1]
  /\ last' = [op |-> "AddOnEvent", node |-> n, name |-> "", dt |-> 0, ret |-> 0,
              pre |-> status[n], held |-> 0, oob |-> FALSE]
  /\ evs' = <<>> /\ notes' = <<>> /\ calls' = <<>> /\ upds' = <<>>
  /\ UNCHANGED << cfg, status, delayedTime, done, index, actions, var, crashed,
                  ncalls, consumed, hist, cum >>

\* The host changes the variable an ActionChecker watches.
SetVar ==
  /\ ~crashed /\ \E n \in Nodes : Kind(n) = "Checker"
  /\ var' = ~var
  /\ last' = [op |-> "SetVar", node |-> 0, name |-> "", dt |-> 0, ret |-> 0,
              pre |-> "", held |-> 0, oob |-> FALSE]
  /\ evs' = <<>> /\ notes' = <<>> /\ calls' = <<>> /\ upds' = <<>>
  /\ UNCHANGED << cfg, status, delayedTime, done, index, obs, actions, crashed,
                  ncalls, consumed, hist, cum >>

MgrTouch(nm) == IF actions[nm] = MainRoot THEN Impure("started") ELSE Keep
MgrTouchAll  == IF Registered(MainRoot) THEN Impure("started") ELSE Keep

MgrStart(nm, r) ==
  /\ Forest.mgr /\ ~crashed /\ r \in Free
  /\ \E s \in Outcomes(ActionManager_Start(Cur("crash"), nm, r),
                        ActionManager_Start(Cur("skip"), nm, r)) :
       Commit(s, "MgrStart", r, nm, 0, 0)
  /\ IF actions[nm] = 0 /\ r = MainRoot THEN Impure("started") ELSE Keep

MgrPause(nm) ==
  /\ Forest.mgr /\ ~crashed
  /\ \E s \in Outcomes(ActionManager_Pause(Cur("crash"), nm),
                        ActionManager_Pause(Cur("skip"), nm)) :
       Commit(s, "MgrPause", actions[nm], nm, 0, 0)
  /\ MgrTouch(nm)

MgrResume(nm) ==
  /\ Forest.mgr /\ ~crashed
  /\ \E s \in Outcomes(ActionManager_Resume(Cur("crash"), nm),
                        ActionManager_Resume(Cur("skip"), nm)) :
       Commit(s, "MgrResume", actions[nm], nm, 0, 0)
  /\ MgrTouch(nm)

MgrStop(nm) ==
  /\ Forest.mgr /\ ~crashed
  /\ \E s \in Outcomes(ActionManager_Stop(Cur("crash"), nm),
                        ActionManager_Stop(Cur("skip"), nm)) :
       Commit(s, "MgrStop", actions[nm], nm, 0, 0)
  /\ MgrTouch(nm)

MgrPauseAll ==
  /\ Forest.mgr /\ ~crashed
  /\ \E ord \in OrdersNow :
       \E s \in Outcomes(ActionManager_PauseAll(Cur("crash"), ord),
                         ActionManager_PauseAll(Cur("skip"), ord)) :
         Commit(s, "MgrPauseAll", 0, "", 0, 0)
  /\ MgrTouchAll

MgrResumeAll ==
  /\ Forest.mgr /\ ~crashed
  /\ \E ord \in OrdersNow :
       \E s \in Outcomes(ActionManager_ResumeAll(Cur("crash"), ord),
                         ActionManager_ResumeAll(Cur("skip"), ord)) :
         Commit(s, "MgrResumeAll", 0, "", 0, 0)
  /\ MgrTouchAll

MgrStopAll ==
  /\ Forest.mgr /\ ~crashed
  /\ \E ord \in OrdersNow :
       \E s \in Outcomes(ActionManager_StopAll(Cur("crash"), ord),
                         ActionManager_StopAll(Cur("skip"), ord)) :
         Commit(s, "MgrStopAll", 0, "", 0, 0)
  /\ MgrTouchAll

MgrUpdate(dt) ==
  /\ Forest.mgr /\ ~crashed
  /\ \E ord \in OrdersNow :
       \E s \in Outcomes(ActionManager_Update(Cur("crash"), ord, dt),
                         ActionManager_Update(Cur("skip"), ord, dt)) :
         Commit(s, "MgrUpdate", 0, "", dt, 0)
  /\ MgrTouchAll

Next ==
  \/ \E r \in Roots : DoStart(r)
  \/ \E r \in Roots : DoPause(r)
  \/ \E r \in Roots : DoResume(r)
  \/ \E r \in Roots : DoStop(r)
  \/ \E r \in Roots, dt \in 0..MaxDelta : DoUpdate(r, dt)
  \/ \E n \in Watched : AddOnEvent(n)
  \/ SetVar
  \/ \E nm \in Names, r \in Roots : MgrStart(nm, r)
  \/ \E nm \in Names : MgrPause(nm)
  \/ \E nm \in Names : MgrResume(nm)
  \/ \E nm \in Names : MgrStop(nm)
  \/ MgrPauseAll
  \/ MgrResumeAll
  \/ MgrStopAll
  \/ \E dt \in 0..MaxDelta : MgrUpdate(dt)

Spec == Init /\ [][Next]_vars

\* ============================================================ properties
Cfg(name) == Forest.name = name
Kids(n)   == {Children(n)[i] : i \in 1..Len(Children(n))}
Range(q)  == {q[i] : i \in 1..Len(q)}

RECURSIVE Descendants(_)
Descendants(n) == Kids(n) \cup UNION {Descendants(k) : k \in Kids(n)}

\* The status an action has after the events es, each taken along its row
\* of the transition table from the status st; "illegal" when one of them
\* has no row from the status it is emitted in.
RECURSIVE Replay(_, _)
Replay(st, es) ==
  IF es = <<>> THEN st
  ELSE LET e == Head(es)
       IN  CASE e = "Started"  /\ st = "Init"    -> Replay("Running", Tail(es))
             [] e = "Paused"   /\ st = "Running" -> Replay("Paused", Tail(es))
             [] e = "Resumed"  /\ st = "Paused"  -> Replay("Running", Tail(es))
             [] e = "Finished" /\ st = "Running" -> Replay("Finished", Tail(es))
             [] e = "Canceled"                   -> Replay("Canceled", Tail(es))
             [] OTHER                            -> "illegal"

RECURSIVE EventsOf(_, _)
EventsOf(log, n) ==
  IF log = <<>> THEN <<>>
  ELSE IF Head(log)[1] = n THEN <<Head(log)[2]>> \o EventsOf(Tail(log), n)
       ELSE EventsOf(Tail(log), n)

\* The row of the table an operation called on an action may take.
RowOf(op, from, to) ==
  CASE op \in {"Start", "MgrStart"}   -> from = "Init" /\ to = "Running"
    [] op \in {"Pause", "MgrPause"}   -> from = "Running" /\ to = "Paused"
    [] op \in {"Resume", "MgrResume"} -> from = "Paused" /\ to = "Running"
    [] op \in {"Stop", "MgrStop"}     -> to = "Canceled"
    [] op = "Update"                  -> from = "Running" /\ to = "Finished"
    [] OTHER                          -> TRUE

\* C1: every action's status follows the transition table (Init->Running by
\* Start, Running->Paused by Pause, Paused->Running by Resume, any->Canceled
\* by Stop, Running->Finished by the completion check of Update), and no
\* event is emitted without such a transition.
C1_StatusFollowsTable ==
  [][ /\ \A n \in Nodes : Replay(status[n], EventsOf(evs', n)) = status'[n]
      /\ (last'.node # 0 /\ status'[last'.node] # status[last'.node])
           => RowOf(last'.op, status[last'.node], status'[last'.node]) ]_vars

\* C2: while a composite is Paused, an Update advances nothing below it: no
\* descendant Timer gains elapsed time, no descendant Function callback runs,
\* and neither the composite nor a descendant becomes Finished.
C2_PausedCompositeFrozen ==
  [][ \A c \in Nodes :
        (IsComposite(c) /\ status[c] = "Paused"
           /\ last'.op \in {"Update", "MgrUpdate"})
        => \A d \in Descendants(c) \cup {c} :
             /\ delayedTime'[d] = delayedTime[d]
             /\ ncalls'[d] = ncalls[d]
             /\ (status'[d] = "Finished" => status[d] = "Finished") ]_vars

\* C3: Update on an action that is not Running is a no-op: its status is
\* unchanged, it emits no event, and the call returns 0.
C3_UpdateNotRunningNoOp ==
  (last.op = "Update" /\ last.pre # "Running")
    => /\ status[last.node] = last.pre
       /\ EventsOf(evs, last.node) = <<>>
       /\ last.ret = 0

\* A Running WaitAny none of whose children has been started yet.
FreshWaitAny ==
  /\ Cfg("WaitAny[T1,T2,T3]") /\ status[MainRoot] = "Running"
  /\ \A k \in Kids(MainRoot) : status[k] = "Init"

FirstUpdate == last'.op = "Update" /\ last'.node = MainRoot /\ last'.dt >= 1

\* C4 as stated: after a single Update with any delta >= 1 of a Running
\* WaitAny of Timers 1, 2, 3, exactly the first child is Finished and the
\* other two are Canceled.
C4_OnlyFirstFinishes ==
  [][ (FreshWaitAny /\ FirstUpdate)
        => /\ status'[2] = "Finished"
           /\ status'[3] = "Canceled" /\ status'[4] = "Canceled" ]_vars

\* C4 amended: after that Update the WaitAny is Finished, every child whose
\* duration is at most the delta is Finished (the first child always is),
\* and every other child is Canceled.
C4_FinishedUpToDelta ==
  [][ (FreshWaitAny /\ FirstUpdate)
        => /\ status'[MainRoot] = "Finished"
           /\ \A k \in Kids(MainRoot) :
                status'[k] = IF WaitTime(k) <= last'.dt THEN "Finished"
                             ELSE "Canceled" ]_vars

C4_Witness ==
  /\ Cfg("WaitAny[T1,T2,T3]") /\ last.op = "Update" /\ last.pre = "Running"
  /\ pure /\ cum = 2 /\ last.dt = 2
  /\ status[2] = "Finished" /\ status[3] = "Finished" /\ status[4] = "Canceled"

\* C5: a Running WaitAll of Timers 1, 2, 3 driven by Updates only is not
\* Finished while the cumulative delta is below 3, is Finished once it has
\* reached 3, and no child is Canceled before that.
C5_WaitAllCompletion ==
  (Cfg("WaitAll[T1,T2,T3]") /\ pure /\ status[MainRoot] # "Init")
    => /\ cum < 3 => /\ status[MainRoot] = "Running"
                     /\ \A k \in Kids(MainRoot) : status[k] # "Canceled"
       /\ cum >= 3 => status[MainRoot] = "Finished"

C5_Witness ==
  /\ Cfg("WaitAll[T1,T2,T3]") /\ pure /\ last.op = "Update"
  /\ cum = 3 /\ last.dt = 1 /\ status[MainRoot] = "Finished"

\* A Queue with at least one child, all of them ActionFunctions.
QueueOfFunctions(n) ==
  /\ Kind(n) = "Queue" /\ Children(n) # <<>>
  /\ \A k \in Kids(n) : Kind(k) = "Function"

Timers == {n \in Nodes : Kind(n) = "Timer"}

\* C7: a Timer never accumulates more than its duration D; when it is
\* Finished the time it consumed while Running adds up to exactly D; the
\* Update that finishes it returns delta - (D - elapsed before the call),
\* and every other Update of a Running Timer returns 0.
C7_TimerConservesTime ==
  /\ [](\A n \in Timers :
          /\ delayedTime[n] <= WaitTime(n) /\ consumed[n] <= WaitTime(n)
          /\ status[n] = "Finished" => consumed[n] = WaitTime(n))
  /\ [][ (last'.op = "Update" /\ last'.node \in Timers
            /\ status[last'.node] = "Running")
         => last'.ret = IF status'[last'.node] = "Finished"
                        THEN last'.dt - (WaitTime(last'.node)
                                           - delayedTime[last'.node])
                        ELSE 0 ]_vars

C7_Witness ==
  /\ Cfg("Timer2+Function") /\ status[1] = "Finished" /\ consumed[1] = 2
  /\ last.op = "Update" /\ last.node = 1 /\ last.dt = 3 /\ last.ret = 2
  /\ ~pure

Count(log, x) == Cardinality({i \in 1..Len(log) : log[i] = x})

\* C8: Stop on an action, whatever its status, leaves it Canceled and sends
\* exactly one Canceled event to each of its observers.
C8_StopAlwaysCancels ==
  (last.op \in {"Stop", "MgrStop"} /\ last.node # 0)
    => /\ status[last.node] = "Canceled"
       /\ EventsOf(evs, last.node) = <<"Canceled">>
       /\ \A k \in 1..obs[last.node] :
            Count(notes, <<last.node, k, "Canceled", "Canceled">>) = 1
       /\ Cardinality({i \in 1..Len(notes) : notes[i][1] = last.node})
            = obs[last.node]

C8_Witness ==
  /\ last.op = "Stop" /\ last.pre = "Finished" /\ obs[last.node] = 2
  /\ status[last.node] = "Canceled"

\* C9 as stated: when Stop on a composite returns, every child is Canceled.
C9_StopCancelsEveryChild ==
  (last.op = "Stop" /\ IsComposite(last.node) /\ ~crashed)
    => \A k \in Kids(last.node) : status[k] = "Canceled"

\* C9 amended: when Stop on a WaitAny or WaitAll returns, every child is
\* Canceled; Stop on a Queue cancels the child at the cursor, if there is
\* one, and its other children keep their status.
C9_StopCascade ==
  /\ []((last.op = "Stop" /\ ~crashed)
          => /\ Kind(last.node) \in {"WaitAny", "WaitAll"}
                  => \A k \in Kids(last.node) : status[k] = "Canceled"
             /\ (Kind(last.node) = "Queue"
                   /\ index[last.node] < Len(Children(last.node)))
                  => status[Children(last.node)[index[last.node] + 1]]
                       = "Canceled")
  /\ [][ (last'.op = "Stop" /\ Kind(last'.node) = "Queue")
           => \A i \in 1..Len(Children(last'.node)) :
                i # index[last'.node] + 1
                  => status'[Children(last'.node)[i]]
                       = status[Children(last'.node)[i]] ]_vars

C9_Witness ==
  /\ Cfg("Queue[T1,T2]") /\ last.op = "Stop" /\ ~crashed /\ index[1] = 1
  /\ status[1] = "Canceled"
  /\ status[2] = "Finished" /\ status[3] = "Canceled"

\* C10: ActionManager::Start with a name that already has an entry changes
\* nothing: the entry, every status and the entry count stay as they are,
\* and the action offered is neither stored nor started.
C10_DuplicateStartIgnored ==
  [][ (last'.op = "MgrStart" /\ actions[last'.name] # 0)
        => /\ actions' = actions
           /\ status' = status
           /\ evs' = <<>>
           /\ UNCHANGED << delayedTime, done, index >> ]_vars

C10_Witness ==
  /\ last.op = "MgrStart" /\ last.held # 0 /\ last.node # last.held
  /\ status[last.node] = "Init" /\ status[last.held] = "Running"
  /\ actions[last.name] = last.held

\* The Update calls an operation made on the action n.
UpdatesOf(log, n) == {i \in 1..Len(log) : log[i][1] = n}

\* C11: one ActionManager::Update calls Update exactly once on the root of
\* every entry held at the start of the call and on no other root; when it
\* returns the registry holds exactly the former entries whose root is not
\* Finished, so no entry with a Finished root is left and IsExist is false
\* for its name.
C11_RegistryUpdateSweeps ==
  [][ (last'.op = "MgrUpdate" /\ ~crashed')
        => /\ \A r \in Roots :
                 Cardinality(UpdatesOf(upds', r)) = IF Registered(r) THEN 1 ELSE 0
           /\ \A r \in Roots : \A i \in UpdatesOf(upds', r) :
                 upds'[i][2] = last'.dt
           /\ \A nm \in Names :
                 /\ actions'[nm] = IF actions[nm] # 0
                                       /\ status'[actions[nm]] # "Finished"
                                    THEN actions[nm] ELSE 0
                 /\ (actions[nm] # 0 /\ status'[actions[nm]] = "Finished")
                      => ~ActionManager_IsExist(nm)' ]_vars

C11_Witness ==
  /\ Cfg("Timer2+Function") /\ last.op = "MgrUpdate" /\ last.dt = 1
  /\ Cardinality(UpdatesOf(upds, 1)) = 1 /\ Cardinality(UpdatesOf(upds, 2)) = 1
  /\ status[1] = "Running" /\ status[2] = "Finished"
  /\ \E nm \in Names : actions[nm] = 1
  /\ ActionManager_GetActionSize = 1

\* The status a transition announced by the event e leads to.
StatusOf(e) ==
  CASE e = "Started"  -> "Running"
    [] e = "Paused"   -> "Paused"
    [] e = "Resumed"  -> "Running"
    [] e = "Finished" -> "Finished"
    [] OTHER          -> "Canceled"

\* The observer invocations owed to the events of log: for each event, the
\* callbacks subscribed to its action, first to last, seeing the new status.
RECURSIVE Deliveries(_)
Deliveries(log) ==
  IF log = <<>> THEN <<>>
  ELSE [k \in 1..obs[Head(log)[1]] |->
          <<Head(log)[1], k, Head(log)[2], StatusOf(Head(log)[2])>>]
       \o Deliveries(Tail(log))

\* C12: every status transition of an action comes with one event of its
\* kind, and for every event each observer subscribed to that action before
\* the operation is invoked exactly once, in subscription order, with that
\* action and event kind, the status already holding the new value.
C12_ObserversNotified ==
  [][ /\ notes' = Deliveries(evs')
      /\ \A n \in Nodes :
            status'[n] = IF EventsOf(evs', n) = <<>> THEN status[n]
                         ELSE StatusOf(EventsOf(evs', n)[Len(EventsOf(evs', n))])
    ]_vars

C12_Witness ==
  /\ obs[MainRoot] = 2 /\ last.op = "Update" /\ last.pre = "Running"
  /\ IsComposite(MainRoot) /\ Len(evs) > 1
  /\ notes = << <<MainRoot, 1, "Finished", "Finished">>,
                <<MainRoot, 2, "Finished", "Finished">> >>

\* Pause, Resume or Stop called on an ActionQueue, directly or by its name.
QueueControl ==
  /\ last'.op \in {"Pause", "Resume", "Stop", "MgrPause", "MgrResume", "MgrStop"}
  /\ last'.node # 0 /\ Kind(last'.node) = "Queue"

\* The children of the queue q other than the one at its cursor, with all
\* that is below them.
OffCursor(q) ==
  UNION {{Children(q)[i]} \cup Descendants(Children(q)[i]) :
           i \in {j \in 1..Len(Children(q)) : j # index[q] + 1}}

\* C13: Pause, Resume and Stop on a Queue reach the child at the cursor
\* only: every other child keeps its status and gets no event; with the
\* cursor past the last child (a done or empty Queue) the call returns
\* having reached no child.
C13_ForwardToCursorOnly ==
  [][ QueueControl
        => /\ \A k \in OffCursor(last'.node) :
                 status'[k] = status[k] /\ EventsOf(evs', k) = <<>>
           /\ index[last'.node] >= Len(Children(last'.node)) => ~crashed'
    ]_vars

Queues == {n \in Nodes : Kind(n) = "Queue"}

\* C14: the cursor of a Queue never decreases and stays within 0..number of
\* children; every child before the cursor is Finished and every child after
\* it is Init, so at most one child is Running or Paused, and a child is
\* started only when the child before it is Finished.
C14_CursorInvariant ==
  /\ [](\A q \in Queues :
          /\ index[q] \in 0..Len(Children(q))
          /\ \A i \in 1..Len(Children(q)) :
                /\ i <= index[q] => status[Children(q)[i]] = "Finished"
                /\ i > index[q] + 1 => status[Children(q)[i]] = "Init"
          /\ Cardinality({k \in Kids(q) : status[k] \in {"Running", "Paused"}})
               <= 1)
  /\ [][ \A q \in Queues :
           /\ index'[q] >= index[q]
           /\ \A i \in 2..Len(Children(q)) :
                 (status[Children(q)[i]] = "Init"
                    /\ status'[Children(q)[i]] # "Init")
                 => status'[Children(q)[i - 1]] = "Finished" ]_vars

C14_Witness ==
  /\ Cfg("Queue[T1,T2]") /\ last.op = "Pause" /\ index[1] = 1
  /\ status[1] = "Paused" /\ status[2] = "Finished" /\ status[3] = "Paused"
  /\ delayedTime[3] = 1

WaitAnys == {n \in Nodes : Kind(n) = "WaitAny"}

\* C15: whenever a WaitAny is Finished each of its children is Finished or
\* Canceled and at least one is Finished; and a child that is Finished when
\* the WaitAny takes the Finished status (it was Finished before the call or
\* finished during it) is not Canceled by that call.
C15_WaitAnyFinished ==
  /\ [](\A w \in WaitAnys :
          status[w] = "Finished"
            => /\ \A k \in Kids(w) : status[k] \in {"Finished", "Canceled"}
               /\ \E k \in Kids(w) : status[k] = "Finished")
  /\ [][ \A w \in WaitAnys :
           (status'[w] = "Finished" /\ <<w, "Finished">> \in Range(evs'))
             => \A k \in Kids(w) :
                  (status[k] = "Finished" \/ <<k, "Finished">> \in Range(evs'))
                    => /\ status'[k] = "Finished"
                       /\ <<k, "Canceled">> \notin Range(evs') ]_vars

C15_Witness ==
  /\ Cfg("WaitAny[T1,T2,T3]") /\ last.op = "Update" /\ last.dt = 1
  /\ status[1] = "Finished" /\ status[2] = "Finished"
  /\ status[3] = "Canceled" /\ status[4] = "Canceled"
  /\ evs = << <<2, "Started">>, <<2, "Finished">>, <<3, "Started">>,
              <<4, "Started">>, <<1, "Finished">>, <<3, "Canceled">>,
              <<4, "Canceled">> >>

SetMax(S) == CHOOSE x \in S : \A y \in S : y <= x
SetMin(S) == CHOOSE x \in S : \A y \in S : x <= y

\* The leftovers the children of c returned in the Update calls of log.
LeftoversOf(log, c) ==
  {log[i][3] : i \in UNION {UpdatesOf(log, k) : k \in Kids(c)}}

\* Each child of c that was Init or Running before the call (so Running once
\* the Init ones are started) got one Update, with the delta dt, while
\* Running; no other child got one.
RunningChildrenUpdated(c, dt) ==
  \A k \in Kids(c) :
    /\ Cardinality(UpdatesOf(upds', k))
         = IF status[k] \in {"Init", "Running"} THEN 1 ELSE 0
    /\ \A i \in UpdatesOf(upds', k) :
         upds'[i][2] = dt /\ upds'[i][4] = "Running"

\* C16: one Update(delta) of a WaitAny updates every child that is Running
\* once the Init children are started, each with the unmodified delta, and no
\* other child; it returns the largest leftover those children returned, and
\* 0 when it updated none.
C16_WaitAnyUpdate ==
  [][ (last'.op = "Update" /\ Kind(last'.node) = "WaitAny" /\ ~crashed')
        => /\ RunningChildrenUpdated(last'.node, last'.dt)
           /\ last'.ret = SetMax({0} \cup LeftoversOf(upds', last'.node))
    ]_vars

C16_Witness ==
  /\ Cfg("WaitAny[Queue[T1,F],T2]") /\ last.op = "Update" /\ last.dt = 3
  /\ last.pre = "Running" /\ last.ret = 2
  /\ <<2, 3, 2, "Running">> \in Range(upds)
  /\ <<5, 3, 1, "Running">> \in Range(upds)

Functions == {n \in Nodes : Kind(n) = "Function"}

\* The Update calls of log that reached the action n while it was Running.
RunningUpdatesOf(log, n) == {i \in UpdatesOf(log, n) : log[i][4] = "Running"}

\* C18: the callback of a Function, alone or anywhere in a tree, runs at most
\* once over a whole run; it runs in exactly the Update calls the Function
\* receives while Running, of which there is at most one: the first, which
\* makes it Finished and returns the whole delta. An Update it receives in
\* any other status returns 0.
C18_FunctionRunsOnce ==
  /\ [](\A f \in Functions :
          /\ ncalls[f] <= 1
          /\ ncalls[f] = 1 => status[f] \in {"Finished", "Canceled"})
  /\ [][ \A f \in Functions :
           /\ Count(calls', f) = Cardinality(RunningUpdatesOf(upds', f))
           /\ ncalls'[f] = ncalls[f] + Count(calls', f)
           /\ \A i \in UpdatesOf(upds', f) :
                 IF upds'[i][4] = "Running"
                 THEN /\ ncalls[f] = 0
                      /\ <<f, "Finished">> \in Range(evs')
                      /\ status'[f] = "Finished"
                      /\ upds'[i][3] = upds'[i][2]
                 ELSE upds'[i][3] = 0 ]_vars

C18_Witness ==
  /\ Cfg("Queue[WaitAll[T1],F]") /\ last.op = "Update" /\ last.dt = 2
  /\ last.ret = 2 /\ calls = <<4>> /\ ncalls[4] = 1
  /\ <<4, 2, 2, "Running">> \in Range(upds)
  /\ status[4] = "Finished"

\* C19: no operation reads the child list of a Queue out of range: every
\* access to a child by Pause, Resume, Stop or Update uses a cursor strictly
\* below the number of children.
C19_NoOutOfRangeAccess == ~last.oob

\* A Queue with at least one child, all of them Timers of positive duration.
QueueOfTimers(n) ==
  /\ Kind(n) = "Queue" /\ Children(n) # <<>>
  /\ \A k \in Kids(n) : Kind(k) = "Timer" /\ WaitTime(k) > 0

RECURSIVE SumOver(_, _, _)
SumOver(f, kids, i) ==
  IF i > Len(kids) THEN 0 ELSE f[kids[i]] + SumOver(f, kids, i + 1)

\* D1 + ... + Dn of a Queue of Timers.
TotalWait(n) == SumOver([k \in Nodes |-> WaitTime(k)], Children(n), 1)

\* C20: a Running Queue of Timers driven by Updates only becomes Finished in
\* the first Update at which the cumulative delta reaches D1+...+Dn, that
\* call returns the cumulative delta minus D1+...+Dn, and every earlier call
\* returns 0; until then the time the children have taken adds up to the
\* cumulative delta.
C20_QueueOfTimersExact ==
  /\ []((QueueOfTimers(MainRoot) /\ pure /\ status[MainRoot] = "Running")
          => /\ cum < TotalWait(MainRoot)
             /\ SumOver(delayedTime, Children(MainRoot), 1) = cum)
  /\ [][ (QueueOfTimers(MainRoot) /\ pure /\ status[MainRoot] = "Running"
            /\ last'.op = "Update" /\ last'.node = MainRoot /\ last'.dt > 0)
         => IF cum' >= TotalWait(MainRoot)
            THEN /\ status'[MainRoot] = "Finished"
                 /\ last'.ret = cum' - TotalWait(MainRoot)
                 /\ \A k \in Kids(MainRoot) :
                       status'[k] = "Finished" /\ delayedTime'[k] = WaitTime(k)
            ELSE /\ status'[MainRoot] = "Running"
                 /\ last'.ret = 0 ]_vars

C20_Witness ==
  /\ Cfg("Queue[T1,T1,T2]") /\ pure /\ last.op = "Update"
  /\ cum = 5 /\ last.dt = 3 /\ last.ret = 1
  /\ status[MainRoot] = "Finished" /\ index[MainRoot] = 3

====
